---- MODULE Spec2Model ----
(***************************************************************************)
(* Model of app.py: the /convert handler of the Ozon report converter.     *)
(*                                                                         *)
(* Text is a sequence of Unicode code points, so that _norm, the f-string  *)
(* renderings and the substring tests are computed character by character. *)
(* A table cell is a record [k, s, n]: a string (k = "str", text s), a     *)
(* finite number (k = "num", n = the value in tenths), a missing value     *)
(* (k = "nan") or an infinite float (k = "inf").                           *)
(***************************************************************************)
EXTENDS Integers, Sequences, FiniteSets, TLC

VARIABLES
    content,   \* the uploaded table as read: [columns, rows]; convert never changes it
    pc,        \* position of the handler: "read", "resolved", "ready", "built", "done", "error"
    columns,   \* df.columns, a sequence of column names
    rows,      \* the rows of df, each a sequence of cells aligned with columns
    picked,    \* c_status, c_art, c_qty, c_ship of ensure_required_columns
    missing,   \* the list `missing` of ensure_required_columns
    df_ready,  \* the Ready Rows: records [art, qty, ship]
    final_df,  \* the table returned by build_main_df: records [a, b, c]
    bold,      \* worksheet rows (1-based body rows) whose column 1 got Font(bold=True)
    response   \* what convert returns: [code, exc]

vars == <<content, pc, columns, rows, picked, missing, df_ready, final_df, bold, response>>

----------------------------------------------------------------------------
(* Bounds of the model *)

MaxCols == 4       \* most columns of an uploaded table (header resolver runs)
MaxRows == 3       \* most Ready Rows handed to build_main_df
MaxRawRows == 2    \* most rows of an uploaded table (whole-handler runs)

----------------------------------------------------------------------------
(* Small helpers *)

Min(S) == CHOOSE x \in S : \A y \in S : x <= y
Max(S) == CHOOSE x \in S : \A y \in S : x >= y

\* the elements of a sequence
Range(q) == {q[i] : i \in DOMAIN q}

\* Python's None; no text holds a negative code point
None == <<-1>>

\* Truthiness of an Optional[str]: None and "" are falsy
Truthy(c) == c # None /\ c # <<>>

\* sequences over S of length lo..hi
SeqsOf(S, lo, hi) == UNION {[1..n -> S] : n \in lo..hi}

\* needle in hay (Python's substring test)
Contains(hay, needle) ==
    \E i \in 0..(Len(hay) - Len(needle)) : SubSeq(hay, i + 1, i + Len(needle)) = needle

\* s < t in Python's string order (lexicographic by code point)
RECURSIVE StrLess(_, _)
StrLess(s, t) ==
    IF t = <<>> THEN FALSE
    ELSE IF s = <<>> THEN TRUE
    ELSE IF Head(s) # Head(t) THEN Head(s) < Head(t)
    ELSE StrLess(Tail(s), Tail(t))

\* the elements of a finite set of strings in ascending order
RECURSIVE SortedStrs(_)
SortedStrs(S) ==
    IF S = {} THEN <<>>
    ELSE LET m == CHOOSE x \in S : \A y \in S \ {x} : StrLess(x, y)
         IN  <<m>> \o SortedStrs(S \ {m})

\* the elements of a finite set of integers in ascending order
RECURSIVE SortedInts(_)
SortedInts(S) ==
    IF S = {} THEN <<>>
    ELSE <<Min(S)>> \o SortedInts(S \ {Min(S)})

\* sep.join(parts)
RECURSIVE Join(_, _)
Join(sep, parts) ==
    IF parts = <<>> THEN <<>>
    ELSE IF Len(parts) = 1 THEN parts[1]
    ELSE parts[1] \o sep \o Join(sep, Tail(parts))

\* the decimal digits of n >= 0
RECURSIVE Digits(_)
Digits(n) == IF n < 10 THEN <<48 + n>> ELSE Digits(n \div 10) \o <<48 + (n % 10)>>

\* f"{n}" of a Python int
IntToStr(n) == IF n < 0 THEN <<45>> \o Digits(0 - n) ELSE Digits(n)

----------------------------------------------------------------------------
(* Constants of app.py *)

\* "Ожидает отгрузки"
DEFAULT_STATUS ==
    <<1054, 1078, 1080, 1076, 1072, 1077, 1090, 32, 1086, 1090, 1075, 1088, 1091, 1079, 1082, 1080>>

\* the canonical column names "Статус", "Артикул", "Количество", "Номер отправления"
ColStatus == <<1057, 1090, 1072, 1090, 1091, 1089>>
ColArticle == <<1040, 1088, 1090, 1080, 1082, 1091, 1083>>
ColQty == <<1050, 1086, 1083, 1080, 1095, 1077, 1089, 1090, 1074, 1086>>
ColShip ==
    <<1053, 1086, 1084, 1077, 1088, 32, 1086, 1090, 1087, 1088, 1072, 1074, 1083, 1077, 1085, 1080, 1103>>

\* "Статус", "Статус заказа", "State", "Status"
status_variants ==
  << <<1057, 1090, 1072, 1090, 1091, 1089>>,
     <<1057, 1090, 1072, 1090, 1091, 1089, 32, 1079, 1072, 1082, 1072, 1079, 1072>>,
     <<83, 116, 97, 116, 101>>,
     <<83, 116, 97, 116, 117, 115>> >>

\* "Артикул", "Артикул продавца", "Артикул товара", "Vendor code", "Vendor", "Offer id", "Offer_id"
article_variants ==
  << <<1040, 1088, 1090, 1080, 1082, 1091, 1083>>,
     <<1040, 1088, 1090, 1080, 1082, 1091, 1083, 32, 1087, 1088, 1086, 1076, 1072, 1074, 1094, 1072>>,
     <<1040, 1088, 1090, 1080, 1082, 1091, 1083, 32, 1090, 1086, 1074, 1072, 1088, 1072>>,
     <<86, 101, 110, 100, 111, 114, 32, 99, 111, 100, 101>>,
     <<86, 101, 110, 100, 111, 114>>,
     <<79, 102, 102, 101, 114, 32, 105, 100>>,
     <<79, 102, 102, 101, 114, 95, 105, 100>> >>

\* "Количество", "Кол-во", "Кол во", "Кол-во товара", "Qty", "Quantity"
qty_variants ==
  << <<1050, 1086, 1083, 1080, 1095, 1077, 1089, 1090, 1074, 1086>>,
     <<1050, 1086, 1083, 45, 1074, 1086>>,
     <<1050, 1086, 1083, 32, 1074, 1086>>,
     <<1050, 1086, 1083, 45, 1074, 1086, 32, 1090, 1086, 1074, 1072, 1088, 1072>>,
     <<81, 116, 121>>,
     <<81, 117, 97, 110, 116, 105, 116, 121>> >>

\* "Номер отправления", "Отправление", "Номер постинга", "Posting number", "Shipment", "Shipment number"
ship_variants ==
  << <<1053, 1086, 1084, 1077, 1088, 32, 1086, 1090, 1087, 1088, 1072, 1074, 1083, 1077, 1085, 1080, 1103>>,
     <<1054, 1090, 1087, 1088, 1072, 1074, 1083, 1077, 1085, 1080, 1077>>,
     <<1053, 1086, 1084, 1077, 1088, 32, 1087, 1086, 1089, 1090, 1080, 1085, 1075, 1072>>,
     <<80, 111, 115, 116, 105, 110, 103, 32, 110, 117, 109, 98, 101, 114>>,
     <<83, 104, 105, 112, 109, 101, 110, 116>>,
     <<83, 104, 105, 112, 109, 101, 110, 116, 32, 110, 117, 109, 98, 101, 114>> >>

\* the four canonical fields in the order ensure_required_columns handles them
Fields == <<"status", "art", "qty", "ship">>
FieldSet == {"status", "art", "qty", "ship"}

Variants(f) ==
    CASE f = "status" -> status_variants
      [] f = "art" -> article_variants
      [] f = "qty" -> qty_variants
      [] f = "ship" -> ship_variants

\* the name a field is reported under and renamed to
CanonName(f) ==
    CASE f = "status" -> ColStatus
      [] f = "art" -> ColArticle
      [] f = "qty" -> ColQty
      [] f = "ship" -> ColShip

----------------------------------------------------------------------------
(* _norm *)

\* characters str.strip() and the regex class \s treat as white space
WhiteSpace == {9, 10, 11, 12, 13, 32, 160}
IsSpace(c) == c \in WhiteSpace

\* the class [\s\-_]
IsSep(c) == IsSpace(c) \/ c = 45 \/ c = 95

\* the class [0-9a-zа-я ]
IsKept(c) == c \in 48..57 \/ c \in 97..122 \/ c \in 1072..1103 \/ c = 32

RECURSIVE LStrip(_)
LStrip(s) == IF s # <<>> /\ IsSpace(Head(s)) THEN LStrip(Tail(s)) ELSE s

RECURSIVE RStrip(_)
RStrip(s) == IF s # <<>> /\ IsSpace(s[Len(s)]) THEN RStrip(SubSeq(s, 1, Len(s) - 1)) ELSE s

\* str.strip()
Strip(s) == RStrip(LStrip(s))

\* str.lower() on Latin and Cyrillic letters
LowerChar(c) ==
    IF c \in 65..90 \/ c \in 1040..1071 THEN c + 32
    ELSE IF c = 1025 THEN 1105
    ELSE c

Lower(s) == [i \in 1..Len(s) |-> LowerChar(s[i])]

\* .replace("ё", "е")
ReplaceYo(s) == [i \in 1..Len(s) |-> IF s[i] = 1105 THEN 1077 ELSE s[i]]

\* re.sub(r"[\s\-_]+", " ", s)
RECURSIVE SubSepRuns(_)
SubSepRuns(s) ==
    IF s = <<>> THEN <<>>
    ELSE IF IsSep(Head(s))
         THEN IF Len(s) > 1 /\ IsSep(s[2])
              THEN SubSepRuns(Tail(s))
              ELSE <<32>> \o SubSepRuns(Tail(s))
         ELSE <<Head(s)>> \o SubSepRuns(Tail(s))

\* re.sub(r"\s+", " ", s)
RECURSIVE SubSpaceRuns(_)
SubSpaceRuns(s) ==
    IF s = <<>> THEN <<>>
    ELSE IF IsSpace(Head(s))
         THEN IF Len(s) > 1 /\ IsSpace(s[2])
              THEN SubSpaceRuns(Tail(s))
              ELSE <<32>> \o SubSpaceRuns(Tail(s))
         ELSE <<Head(s)>> \o SubSpaceRuns(Tail(s))

_norm(s) ==
    LET s1 == ReplaceYo(Lower(Strip(s)))
        s2 == SubSepRuns(s1)
        s3 == SelectSeq(s2, IsKept)
    IN  Strip(SubSpaceRuns(s3))

----------------------------------------------------------------------------
(* Column names of the model's uploads *)

\* column names an upload may carry
HdrStatus == ColStatus
\* "статус"
HdrStatusLower == <<1089, 1090, 1072, 1090, 1091, 1089>>
\* "СТАТУС  ЗАКАЗА"
HdrStatusOrder == <<1057, 1058, 1040, 1058, 1059, 1057, 32, 32, 1047, 1040, 1050, 1040, 1047, 1040>>
HdrArticle == ColArticle
\* "Offer-ID"
HdrOfferId == <<79, 102, 102, 101, 114, 45, 73, 68>>
\* "Кол_во"
HdrQtyShort == <<1050, 1086, 1083, 95, 1074, 1086>>
\* "Моё кол-во, шт."
HdrQtyLong == <<1052, 1086, 1105, 32, 1082, 1086, 1083, 45, 1074, 1086, 44, 32, 1096, 1090, 46>>
HdrShip == ColShip
\* "Shipment Qty"
HdrShipQty == <<83, 104, 105, 112, 109, 101, 110, 116, 32, 81, 116, 121>>
\* "Дата"
HdrDate == <<1044, 1072, 1090, 1072>>

\* the names the header resolver runs draw from
HeaderPool ==
    {HdrStatus, HdrStatusLower, HdrStatusOrder, HdrArticle, HdrQtyShort,
     HdrQtyLong, HdrShip, HdrShipQty, HdrDate}

\* every text the header resolver normalizes in this model
KnownTexts == HeaderPool \cup {HdrOfferId} \cup UNION {Range(Variants(f)) : f \in FieldSet}

\* _norm of the known texts, computed once
NormTable == [s \in KnownTexts |-> _norm(s)]

\* _norm(s), looked up when already computed
NormOf(s) == IF s \in KnownTexts THEN NormTable[s] ELSE _norm(s)

----------------------------------------------------------------------------
(* _pick_col and ensure_required_columns *)

\* the exact step walking the columns first, the variants second
_pick_col_ColumnFirst(cols, variants) ==
    LET nc == [i \in DOMAIN cols |-> NormOf(cols[i])]
        nv == [j \in DOMAIN variants |-> NormOf(variants[j])]
        exact == {i \in DOMAIN cols : \E j \in DOMAIN variants : nc[i] = nv[j]}
        sub == {i \in DOMAIN cols :
                   \E j \in DOMAIN variants : nv[j] # <<>> /\ Contains(nc[i], nv[j])}
    IN  IF exact # {} THEN cols[Min(exact)]
        ELSE IF sub # {} THEN cols[Min(sub)]
        ELSE None

_pick_col(cols, variants) ==
    LET nc == [i \in DOMAIN cols |-> NormOf(cols[i])]
        nv == [j \in DOMAIN variants |-> NormOf(variants[j])]
        \* norm_map[k]: a later column with the same normalized name overwrites
        norm_map(k) == cols[Max({i \in DOMAIN cols : nc[i] = k})]
        exact == {j \in DOMAIN variants : \E i \in DOMAIN cols : nc[i] = nv[j]}
        sub == {i \in DOMAIN cols :
                   \E j \in DOMAIN variants : nv[j] # <<>> /\ Contains(nc[i], nv[j])}
    IN  IF exact # {} THEN norm_map(nv[Min(exact)])
        ELSE IF sub # {} THEN cols[Min(sub)]
        ELSE None

\* c_status, c_art, c_qty, c_ship
PickAll(cols) == [f \in FieldSet |-> _pick_col(cols, Variants(f))]

\* the list without the test of c_ship
MissingOf_NoShip(p) ==
    LET unresolved(i) == ~Truthy(p[Fields[i]])
        idx == SelectSeq(<<1, 2, 3>>, unresolved)
    IN  [k \in 1..Len(idx) |-> CanonName(Fields[idx[k]])]

\* the list `missing`, appended to in the fixed order of the four tests
MissingOf(p) ==
    LET unresolved(i) == ~Truthy(p[Fields[i]])
        idx == SelectSeq(<<1, 2, 3, 4>>, unresolved)
    IN  [k \in 1..Len(idx) |-> CanonName(Fields[idx[k]])]

\* the dict literal {c_status: ..., c_art: ..., c_qty: ..., c_ship: ...}: a later
\* entry with the same key replaces an earlier one
RenameOne(p, c) ==
    IF c = p["ship"] THEN ColShip
    ELSE IF c = p["qty"] THEN ColQty
    ELSE IF c = p["art"] THEN ColArticle
    ELSE IF c = p["status"] THEN ColStatus
    ELSE c

\* df.rename(columns=...)
Rename(p, cols) == [i \in DOMAIN cols |-> RenameOne(p, cols[i])]

----------------------------------------------------------------------------
(* Cells and the Row Filter of convert *)

Str(s) == [k |-> "str", s |-> s, n |-> 0]
Num(t) == [k |-> "num", s |-> <<>>, n |-> t]
NaN == [k |-> "nan", s |-> <<>>, n |-> 0]
Inf == [k |-> "inf", s |-> <<>>, n |-> 0]

IsDigit(c) == c \in 48..57

\* the value of a string of digits
RECURSIVE DigitsVal(_)
DigitsVal(s) == IF s = <<>> THEN 0 ELSE 10 * DigitsVal(SubSeq(s, 1, Len(s) - 1)) + (s[Len(s)] - 48)

\* the float a string parses to, in tenths rounded toward zero: an optional sign,
\* digits with an optional "." and more digits (the strings of the model carry no
\* exponent); "inf" and "infinity" in any case; anything else is NaN
ParseFloat(s) ==
    LET t == Strip(s)
        signed == t # <<>> /\ Head(t) \in {43, 45}
        neg == t # <<>> /\ Head(t) = 45
        u == IF signed THEN Tail(t) ELSE t
        dot == {i \in DOMAIN u : u[i] = 46}
        ip == IF dot = {} THEN u ELSE SubSeq(u, 1, Min(dot) - 1)
        fp == IF dot = {} THEN <<>> ELSE SubSeq(u, Min(dot) + 1, Len(u))
        abs == 10 * DigitsVal(ip) + (IF fp = <<>> THEN 0 ELSE fp[1] - 48)
    IN  IF Lower(u) \in {<<105, 110, 102>>, <<105, 110, 102, 105, 110, 105, 116, 121>>} THEN Inf
        ELSE IF /\ ip \o fp # <<>>
                /\ \A i \in DOMAIN ip : IsDigit(ip[i])
                /\ \A i \in DOMAIN fp : IsDigit(fp[i])
             THEN Num(IF neg THEN 0 - abs ELSE abs)
             ELSE NaN

\* pd.to_numeric(..., errors="coerce") of one cell
ToNumeric(cell) == IF cell.k = "str" THEN ParseFloat(cell.s) ELSE cell

\* .fillna(0)
FillNa0(cell) == IF cell.k = "nan" THEN Num(0) ELSE cell

\* a float that .astype(int) can convert
Finite(cell) == cell.k = "num"

\* .astype(int) of a finite float given in tenths: truncation toward zero
AsInt(t) == IF t >= 0 THEN t \div 10 ELSE 0 - ((0 - t) \div 10)

\* how many columns carry the name
CountCol(cols, name) == Cardinality({i \in DOMAIN cols : cols[i] = name})

\* position of a column that occurs exactly once
ColIdx(cols, name) == CHOOSE i \in DOMAIN cols : cols[i] = name

\* df["Статус"] == DEFAULT_STATUS, for one row
IsReady(cols, row) ==
    LET st == row[ColIdx(cols, ColStatus)] IN st.k = "str" /\ st.s = DEFAULT_STATUS

\* the cell of a row under a canonical column (missing when the table has no such column)
CellOf(cols, row, name) == IF CountCol(cols, name) = 1 THEN row[ColIdx(cols, name)] ELSE NaN

\* the rows convert keeps: df[df["Статус"] == DEFAULT_STATUS]
Kept(cols, rws) == SelectSeq(rws, LAMBDA row : IsReady(cols, row))

\* the coerced Quantity column of the kept rows, before .astype(int)
QtyFloat(cols, row) == FillNa0(ToNumeric(row[ColIdx(cols, ColQty)]))

ReadyRow(cols, row) ==
    [art |-> CellOf(cols, row, ColArticle),
     qty |-> AsInt(QtyFloat(cols, row).n),
     ship |-> CellOf(cols, row, ColShip)]

----------------------------------------------------------------------------
(* build_note and build_main_df *)

\* a count where the sum belongs
SumSeq_Count(q) == Len(q)

RECURSIVE SumSeq(_)
SumSeq(q) == IF q = <<>> THEN 0 ELSE Head(q) + SumSeq(Tail(q))

\* "в одну"
InOne == <<1074, 32, 1086, 1076, 1085, 1091>>

\* the threshold off by one
build_note_FromOne(qtys) ==
    LET bigger == SortedInts({q \in Range(qtys) : q >= 1})
    IN  IF bigger = <<>> THEN <<>>
        ELSE Join(<<44, 32>>, [i \in DOMAIN bigger |-> IntToStr(bigger[i]) \o InOne])

build_note(qtys) ==
    LET bigger == SortedInts({q \in Range(qtys) : q > 1})
    IN  IF bigger = <<>> THEN <<>>
        ELSE Join(<<44, 32>>, [i \in DOMAIN bigger |-> IntToStr(bigger[i]) \o InOne])

\* the keys of df.groupby(col): the distinct non-missing values, sorted
GroupKeys(df, col) == SortedStrs({df[i][col].s : i \in {j \in DOMAIN df : df[j][col].k = "str"}})

\* the rows of one group, in their original order
GroupRows(df, col, key) == SelectSeq(df, LAMBDA r : r[col] = Str(key))

\* the Quantity column of a sequence of rows
QtyCol(df) == [i \in DOMAIN df |-> df[i].qty]

\* the lambda of grouped.apply: the Display Quantity string of one group
DisplayQty(total, note) ==
    IF note # <<>> THEN IntToStr(total) \o <<40>> \o note \o <<41>> ELSE IntToStr(total)

\* top_df: one row per group of df_ready.groupby(["Артикул"])
TopDf(df) ==
    LET keys == GroupKeys(df, "art")
    IN  [i \in DOMAIN keys |->
            LET q == QtyCol(GroupRows(df, "art", keys[i]))
            IN  [a |-> keys[i], b |-> DisplayQty(SumSeq(q), build_note(q)), c |-> <<>>]]

\* the line of one shipment: its articles sorted, "<Article> — <sum>" joined by "; "
ShipLine(ship_df) ==
    LET items == GroupKeys(ship_df, "art")
    IN  Join(<<59, 32>>,
             [i \in DOMAIN items |->
                 items[i] \o <<32, 8212, 32>>
                          \o IntToStr(SumSeq(QtyCol(GroupRows(ship_df, "art", items[i]))))])

\* the rows of the shipment counted, not its distinct articles
NUnique_Rows(ship_df) == Len(ship_df)

\* ship_df["Артикул"].nunique()
NUnique(ship_df) == Len(GroupKeys(ship_df, "art"))

\* blocks: one row per shipment with more than one distinct article
RECURSIVE Blocks(_, _)
Blocks(df, ships) ==
    IF ships = <<>> THEN <<>>
    ELSE LET ship_df == GroupRows(df, "ship", Head(ships))
         IN  (IF NUnique(ship_df) <= 1 THEN <<>>
              ELSE <<[a |-> ShipLine(ship_df), b |-> <<>>, c |-> <<>>]>>)
             \o Blocks(df, Tail(ships))

BottomDf(df) == Blocks(df, GroupKeys(df, "ship"))

Spacer == [i \in 1..2 |-> [a |-> <<>>, b |-> <<>>, c |-> <<>>]]

\* pd.concat([top_df, spacer, bottom_df])
build_main_df(df) == TopDf(df) \o Spacer \o BottomDf(df)

----------------------------------------------------------------------------
(* format_as_osnovnoi_spisok: which rows get the bold font *)

\* a cell as load_workbook reads it back: an empty string comes back as no value
XlsxCell(s) == IF s = <<>> THEN None ELSE s

\* the test without the look at column 2
IsBoldRow_NoB(a, b, c) ==
    /\ a # None
    /\ Strip(a) # <<>>
    /\ ~Truthy(c)
    /\ (8212 \in Range(a) \/ 59 \in Range(a))

\* the test of the bolding loop on the cells a, b, c of one worksheet row
IsBoldRow(a, b, c) ==
    /\ a # None
    /\ Strip(a) # <<>>
    /\ ~Truthy(b)
    /\ ~Truthy(c)
    /\ (8212 \in Range(a) \/ 59 \in Range(a))

BoldRows(table) ==
    {r \in DOMAIN table :
        IsBoldRow(XlsxCell(table[r].a), XlsxCell(table[r].b), XlsxCell(table[r].c))}

----------------------------------------------------------------------------
(* The handler convert, step by step *)

NoResponse == [code |-> 0, exc |-> ""]
NoPick == [f \in FieldSet |-> None]

\* the exception the Row Filter lines of convert raise on a table, "" when none:
\* a lookup of a column that is absent or not unique, or .astype(int) of a
\* non-finite float (pandas refuses to cast NaN or inf to integer)
FilterExc(cols, rws) ==
    IF CountCol(cols, ColStatus) = 0 THEN "KeyError"
    ELSE IF CountCol(cols, ColStatus) > 1 THEN "ValueError"
    ELSE IF CountCol(cols, ColQty) = 0 THEN "KeyError"
    ELSE IF CountCol(cols, ColQty) > 1 THEN "TypeError"
    ELSE IF \E i \in DOMAIN Kept(cols, rws) : ~Finite(QtyFloat(cols, Kept(cols, rws)[i]))
         THEN "IntCastingNaNError"
    ELSE ""

\* the exception build_main_df raises, "" when none: a groupby on a column that
\* is absent or not unique, or, when no group exists, grouped.apply(..., axis=1)
\* returning a DataFrame that cannot be assigned to the one column "Количество"
BuildExc(cols, df) ==
    IF CountCol(cols, ColArticle) = 0 THEN "KeyError"
    ELSE IF CountCol(cols, ColArticle) > 1 THEN "ValueError"
    ELSE IF GroupKeys(df, "art") = <<>> THEN "ValueError"
    ELSE IF CountCol(cols, ColShip) = 0 THEN "KeyError"
    ELSE IF CountCol(cols, ColShip) > 1 THEN "ValueError"
    ELSE ""

\* ensure_required_columns returns the renamed table
EnsureRequiredColumns ==
    /\ pc = "read"
    /\ LET p == PickAll(columns)
       IN  /\ MissingOf(p) = <<>>
           /\ picked' = p
           /\ missing' = <<>>
           /\ columns' = Rename(p, columns)
    /\ pc' = "resolved"
    /\ UNCHANGED <<content, rows, df_ready, final_df, bold, response>>

\* ensure_required_columns raises ValueError; convert answers 400 with its text
EnsureRequiredColumnsRaise ==
    /\ pc = "read"
    /\ LET p == PickAll(columns)
       IN  /\ MissingOf(p) # <<>>
           /\ picked' = p
           /\ missing' = MissingOf(p)
    /\ response' = [code |-> 400, exc |-> "ValueError"]
    /\ pc' = "error"
    /\ UNCHANGED <<content, columns, rows, df_ready, final_df, bold>>

\* df_ready = df[df["Статус"] == DEFAULT_STATUS]; Quantity coerced to int
RowFilter ==
    /\ pc = "resolved"
    /\ FilterExc(columns, rows) = ""
    /\ df_ready' = [i \in DOMAIN Kept(columns, rows) |-> ReadyRow(columns, Kept(columns, rows)[i])]
    /\ pc' = "ready"
    /\ UNCHANGED <<content, columns, rows, picked, missing, final_df, bold, response>>

\* the same lines raise; nothing in convert catches it: 500
RowFilterRaise ==
    /\ pc = "resolved"
    /\ FilterExc(columns, rows) # ""
    /\ response' = [code |-> 500, exc |-> FilterExc(columns, rows)]
    /\ pc' = "error"
    /\ UNCHANGED <<content, columns, rows, picked, missing, df_ready, final_df, bold>>

\* final_df = build_main_df(df_ready)
BuildMainDf ==
    /\ pc = "ready"
    /\ BuildExc(columns, df_ready) = ""
    /\ final_df' = build_main_df(df_ready)
    /\ pc' = "built"
    /\ UNCHANGED <<content, columns, rows, picked, missing, df_ready, bold, response>>

\* build_main_df raises; nothing in convert catches it: 500
BuildMainDfRaise ==
    /\ pc = "ready"
    /\ BuildExc(columns, df_ready) # ""
    /\ response' = [code |-> 500, exc |-> BuildExc(columns, df_ready)]
    /\ pc' = "error"
    /\ UNCHANGED <<content, columns, rows, picked, missing, df_ready, final_df, bold>>

\* to_excel, format_as_osnovnoi_spisok and the StreamingResponse
FormatAsOsnovnoiSpisok ==
    /\ pc = "built"
    /\ bold' = BoldRows(final_df)
    /\ response' = [code |-> 200, exc |-> ""]
    /\ pc' = "done"
    /\ UNCHANGED <<content, columns, rows, picked, missing, df_ready, final_df>>

----------------------------------------------------------------------------
(* Inputs *)

\* the readers hand over distinct column names
Injective(q) == \A i, j \in DOMAIN q : q[i] = q[j] => i = j

HeaderRows == {q \in SeqsOf(HeaderPool, 1, MaxCols) : Injective(q)}

CanonicalHeader == <<ColStatus, ColArticle, ColQty, ColShip>>

\* what ensure_required_columns picks on the canonical header row
CanonicalPick == PickAll(CanonicalHeader)

\* "ожидает отгрузки"
StatusLower ==
    <<1086, 1078, 1080, 1076, 1072, 1077, 1090, 32, 1086, 1090, 1075, 1088, 1091, 1079, 1082, 1080>>

\* articles "B" and "A;", shipments "S1" and "S2"
ArticlePool == {<<66>>, <<65, 59>>}
ShipPool == {<<83, 49>>, <<83, 50>>}

\* Quantity values of Ready Rows
QtyPool == {0, 1, 2, 3}

\* raw Quantity cells: 1, 2, 3.9, -3, "3.9", "abc", missing, inf
RawQtyPool ==
    {Num(10), Num(20), Num(39), Num(-30), Str(<<51, 46, 57>>), Str(<<97, 98, 99>>), NaN, Inf}

\* an upload read into a table: the state before ensure_required_columns
Uploaded(cols, rws) ==
    /\ content = [columns |-> cols, rows |-> rws]
    /\ pc = "read"
    /\ columns = cols
    /\ rows = rws
    /\ picked = NoPick
    /\ missing = <<>>
    /\ df_ready = <<>>
    /\ final_df = <<>>
    /\ bold = {}
    /\ response = NoResponse

\* header resolver runs: any header row, a table without rows
InitResolve == \E cols \in HeaderRows : Uploaded(cols, <<>>)

\* whole-handler runs: four columns under several header rows, raw cells in the rows
ConvertHeaders ==
    {CanonicalHeader,
     <<HdrStatusOrder, HdrOfferId, HdrQtyShort, HdrShip>>,
     <<HdrStatus, HdrArticle, HdrDate, HdrShip>>,
     <<HdrStatus, HdrArticle, HdrShipQty, HdrDate>>}

RawRows ==
    {<<st, Str(a), q, Str(sh)>> :
        st \in {Str(DEFAULT_STATUS), Str(StatusLower)}, a \in ArticlePool,
        q \in RawQtyPool, sh \in ShipPool}

Init == \E cols \in ConvertHeaders, rws \in SeqsOf(RawRows, 0, MaxRawRows) : Uploaded(cols, rws)

\* aggregator runs: the state convert is in when it calls build_main_df on a table
\* whose rows all have the target status; a row may lack its Article
ReadyRows ==
    {[art |-> Str(a), qty |-> q, ship |-> Str(sh)] :
        a \in ArticlePool, q \in QtyPool, sh \in ShipPool}
    \cup {[art |-> NaN, qty |-> 2, ship |-> Str(sh)] : sh \in ShipPool}

\* a table of rows with the target status that the Row Filter turns into df
ReadyTable(df) ==
    [i \in DOMAIN df |-> <<Str(DEFAULT_STATUS), df[i].art, Num(10 * df[i].qty), df[i].ship>>]

InitBuild ==
    \E df \in SeqsOf(ReadyRows, 0, MaxRows) :
        /\ pc = "ready"
        /\ columns = CanonicalHeader
        /\ rows = ReadyTable(df)
        /\ content = [columns |-> CanonicalHeader, rows |-> ReadyTable(df)]
        /\ picked = CanonicalPick
        /\ missing = <<>>
        /\ df_ready = df
        /\ final_df = <<>>
        /\ bold = {}
        /\ response = NoResponse

----------------------------------------------------------------------------
(* Specifications *)

Next ==
    \/ EnsureRequiredColumns
    \/ EnsureRequiredColumnsRaise
    \/ RowFilter
    \/ RowFilterRaise
    \/ BuildMainDf
    \/ BuildMainDfRaise
    \/ FormatAsOsnovnoiSpisok

\* the whole handler on an upload
Spec == Init /\ [][Next]_vars

NextResolve == EnsureRequiredColumns \/ EnsureRequiredColumnsRaise

\* ensure_required_columns on every bounded header row
SpecResolve == InitResolve /\ [][NextResolve]_vars

NextBuild == BuildMainDf \/ BuildMainDfRaise \/ FormatAsOsnovnoiSpisok

\* build_main_df and the formatter on every bounded set of Ready Rows
SpecBuild == InitBuild /\ [][NextBuild]_vars

----------------------------------------------------------------------------
(* What the claims speak of, stated on the Ready Rows and the returned table *)

\* build_main_df has returned
Built == pc \in {"built", "done"}

\* the distinct Articles among the Ready Rows
ArticlesOf(df) == {df[i].art.s : i \in {j \in DOMAIN df : df[j].art.k = "str"}}

\* the shipment numbers among the Ready Rows
ShipsOf(df) == {df[i].ship.s : i \in {j \in DOMAIN df : df[j].ship.k = "str"}}

\* the Ready Rows (by position) of an Article, of a shipment, of both
RowsOfArt(df, a) == {i \in DOMAIN df : df[i].art = Str(a)}
RowsOfShip(df, sh) == {i \in DOMAIN df : df[i].ship = Str(sh)}

\* the distinct Articles of a shipment
ArtsOfShip(df, sh) == {df[i].art.s : i \in {j \in RowsOfShip(df, sh) : df[j].art.k = "str"}}

\* the sum of Quantity over a set of row positions
RECURSIVE QtySum(_, _)
QtySum(df, I) ==
    IF I = {} THEN 0
    ELSE LET i == CHOOSE x \in I : TRUE IN df[i].qty + QtySum(df, I \ {i})

\* rows of the table by shape: a summary row has a Quantity cell, a shipment line
\* has text in column 1 only, a blank row has nothing
IsSummaryRow(r) == r.b # <<>>
IsLineRow(r) == r.a # <<>> /\ r.b = <<>> /\ r.c = <<>>
IsBlankRow(r) == r.a = <<>> /\ r.b = <<>> /\ r.c = <<>>

\* the integer a Display Quantity string starts with
TotalShown(b) ==
    LET paren == {i \in DOMAIN b : b[i] = 40}
        txt == IF paren = {} THEN b ELSE SubSeq(b, 1, Min(paren) - 1)
    IN  IF txt # <<>> /\ Head(txt) = 45 THEN 0 - DigitsVal(Tail(txt)) ELSE DigitsVal(txt)

----------------------------------------------------------------------------
(* C1 *)

\* C1: once build_main_df has returned, every distinct Article of the Ready Rows
\* has exactly one Article Summary row, every Article Summary row is for such an
\* Article, and the Total it shows is the sum of Quantity over the Ready Rows of
\* that Article, whatever the order of the rows.
C1_ArticleSummary ==
    Built =>
        /\ \A a \in ArticlesOf(df_ready) :
              Cardinality({r \in DOMAIN final_df :
                              IsSummaryRow(final_df[r]) /\ final_df[r].a = a}) = 1
        /\ \A r \in DOMAIN final_df :
              IsSummaryRow(final_df[r]) =>
                  /\ final_df[r].a \in ArticlesOf(df_ready)
                  /\ TotalShown(final_df[r].b)
                        = QtySum(df_ready, RowsOfArt(df_ready, final_df[r].a))

\* two Articles interleaved, the greater one first, one of them in two rows
C1_Witness ==
    /\ Built
    /\ Len(df_ready) = 3
    /\ df_ready[1].art = Str(<<66>>) /\ df_ready[1].qty = 2
    /\ df_ready[2].art = Str(<<65, 59>>) /\ df_ready[2].qty = 3
    /\ df_ready[3].art = Str(<<66>>) /\ df_ready[3].qty = 1
    /\ \E r \in DOMAIN final_df : final_df[r].a = <<66>> /\ TotalShown(final_df[r].b) = 3

----------------------------------------------------------------------------
(* C2 *)

\* the line the claim describes for a shipment: each distinct Article once, in
\* ascending order, with the sum of its Quantity within the shipment
C2_Line(df, sh) ==
    LET arts == SortedStrs(ArtsOfShip(df, sh))
    IN  Join(<<59, 32>>,
             [i \in DOMAIN arts |->
                 arts[i] \o <<32, 8212, 32>>
                         \o IntToStr(QtySum(df, RowsOfShip(df, sh) \cap RowsOfArt(df, arts[i])))])

\* the shipments with more than one distinct Article
C2_MultiShips(df) == {sh \in ShipsOf(df) : Cardinality(ArtsOfShip(df, sh)) > 1}

\* C2: once build_main_df has returned, the shipment lines of the table are, with
\* multiplicity, the lines of the shipments with more than one distinct Article:
\* one row for each such shipment, none for any other, each line listing the
\* distinct Articles ascending as "<Article> — <sum>" joined by "; ".
C2_ShipmentLines ==
    Built =>
        LET emitted == {r \in DOMAIN final_df : IsLineRow(final_df[r])}
            multi == C2_MultiShips(df_ready)
        IN  /\ Cardinality(emitted) = Cardinality(multi)
            /\ \A sh \in multi :
                  Cardinality({r \in emitted : final_df[r].a = C2_Line(df_ready, sh)})
                      = Cardinality({t \in multi : C2_Line(df_ready, t) = C2_Line(df_ready, sh)})

\* shipment S1 holds "B" then "A;" twice, so one line "A; — 3; B — 3"
C2_Witness ==
    /\ Built
    /\ Len(df_ready) = 3
    /\ \A i \in 1..3 : df_ready[i].ship = Str(<<83, 49>>)
    /\ df_ready[1].art = Str(<<66>>) /\ df_ready[1].qty = 3
    /\ df_ready[2].art = Str(<<65, 59>>) /\ df_ready[2].qty = 2
    /\ df_ready[3].art = Str(<<65, 59>>) /\ df_ready[3].qty = 1
    /\ Len(final_df) = 5
    /\ final_df[5].a = <<65, 59, 32, 8212, 32, 51, 59, 32, 66, 32, 8212, 32, 51>>

----------------------------------------------------------------------------
(* C3 *)

\* the Annotation the claim describes for a set of row positions
C3_Annotation(df, I) ==
    LET vals == SortedInts({df[i].qty : i \in {j \in I : df[j].qty > 1}})
    IN  Join(<<44, 32>>, [k \in DOMAIN vals |-> IntToStr(vals[k]) \o InOne])

\* C3: once build_main_df has returned, the Quantity cell of every Article's
\* summary row is "<Total>(<Annotation>)" when some Quantity of the group exceeds
\* 1 and "<Total>" otherwise, the Annotation listing the distinct Quantities
\* above 1 ascending as "<value>в одну" joined by ", ".
C3_DisplayQuantity ==
    Built =>
        \A r \in DOMAIN final_df :
            IsSummaryRow(final_df[r]) =>
                LET I == RowsOfArt(df_ready, final_df[r].a)
                    total == IntToStr(QtySum(df_ready, I))
                    note == C3_Annotation(df_ready, I)
                IN  /\ (\E i \in I : df_ready[i].qty > 1)
                        => final_df[r].b = total \o <<40>> \o note \o <<41>>
                    /\ (\A i \in I : df_ready[i].qty <= 1) => final_df[r].b = total

\* one Article with quantities 3, 2, 2: "7(2в одну, 3в одну)"
C3_Witness ==
    /\ Built
    /\ Len(df_ready) = 3
    /\ \A i \in 1..3 : df_ready[i].art = Str(<<66>>)
    /\ df_ready[1].qty = 3 /\ df_ready[2].qty = 2 /\ df_ready[3].qty = 2
    /\ final_df[1].b = <<55, 40, 50>> \o InOne \o <<44, 32, 51>> \o InOne \o <<41>>

----------------------------------------------------------------------------
(* C8 *)

\* C8 as claimed: whatever the Ready Rows, the empty set included, the call of
\* build_main_df returns a table made of the Article Summary rows, then two blank
\* rows, then the shipment lines.
C8_Assembly ==
    pc # "ready" =>
        LET n == Cardinality(ArticlesOf(df_ready))
            m == Cardinality(C2_MultiShips(df_ready))
        IN  /\ pc # "error"
            /\ Len(final_df) = n + 2 + m
            /\ \A r \in DOMAIN final_df :
                  /\ r <= n => IsSummaryRow(final_df[r])
                  /\ r \in {n + 1, n + 2} => IsBlankRow(final_df[r])
                  /\ r > n + 2 => IsLineRow(final_df[r])

\* the same layout, for Ready Rows with at least one Article
C8_AssemblyNonEmpty == ArticlesOf(df_ready) # {} => C8_Assembly

----------------------------------------------------------------------------
(* C9 *)

\* C9: in the formatted workbook exactly the shipment lines are bold: each has
\* text with "—" or ";" in column 1 and nothing in columns 2 and 3 and gets the
\* bold font; no Article Summary row and no blank row does, even when the
\* Article itself contains "—" or ";".
C9_Bolding ==
    pc = "done" =>
        LET n == Cardinality(ArticlesOf(df_ready))
        IN  \A r \in DOMAIN final_df :
                IF r > n + 2
                THEN /\ Strip(final_df[r].a) # <<>>
                     /\ (8212 \in Range(final_df[r].a) \/ 59 \in Range(final_df[r].a))
                     /\ final_df[r].b = <<>> /\ final_df[r].c = <<>>
                     /\ r \in bold
                ELSE r \notin bold

\* a summary row for the Article "A;" next to a shipment line; only the line is bold
C9_Witness ==
    /\ pc = "done"
    /\ Len(final_df) = 5
    /\ final_df[1].a = <<65, 59>>
    /\ IsLineRow(final_df[5])
    /\ bold = {5}

----------------------------------------------------------------------------
(* C6, C7, C10: the header resolver *)

\* the variants of a field that some uploaded column equals after normalization
C6_ExactVariants(cols, f) ==
    {j \in DOMAIN Variants(f) :
        \E i \in DOMAIN cols : NormOf(cols[i]) = NormOf(Variants(f)[j])}

\* the uploaded columns whose normalized name contains a variant's non-empty
\* normalized form
C6_SubColumns(cols, f) ==
    {i \in DOMAIN cols :
        \E j \in DOMAIN Variants(f) :
            /\ NormOf(Variants(f)[j]) # <<>>
            /\ Contains(NormOf(cols[i]), NormOf(Variants(f)[j]))}

\* C6: once ensure_required_columns has run, the column picked for a field is an
\* uploaded column whose normalized name equals the normalized first variant (in
\* priority order) that has an exact match; failing any exact match, the first
\* uploaded column containing a variant's non-empty normalized form; failing
\* that too, no column.
C6_PickCol ==
    pc # "read" =>
        \A f \in FieldSet :
            LET cols == content.columns
                ex == C6_ExactVariants(cols, f)
                sub == C6_SubColumns(cols, f)
            IN  IF ex # {}
                THEN /\ picked[f] \in Range(cols)
                     /\ NormOf(picked[f]) = NormOf(Variants(f)[Min(ex)])
                ELSE IF sub # {} THEN picked[f] = cols[Min(sub)]
                ELSE picked[f] = None

\* "СТАТУС  ЗАКАЗА" stands before "Статус", yet the first variant wins; the
\* quantity comes from the fallback; no article column
C6_Witness ==
    /\ pc # "read"
    /\ content.columns = <<HdrStatusOrder, HdrStatus, HdrDate, HdrQtyLong>>
    /\ picked["status"] = HdrStatus
    /\ picked["qty"] = HdrQtyLong
    /\ picked["art"] = None

\* no uploaded column matches any variant of the field, exactly or as a substring
C7_Unresolved(cols, f) == C6_SubColumns(cols, f) = {}

\* the unresolved fields' names in the order Status, Article, Quantity, Shipment Number
C7_Expected(cols) ==
    LET idx == SelectSeq(<<1, 2, 3, 4>>, LAMBDA i : C7_Unresolved(cols, Fields[i]))
    IN  [k \in 1..Len(idx) |-> CanonName(Fields[idx[k]])]

\* C7: once ensure_required_columns has run: if some field is unresolved the
\* handler has answered 400 with exactly the unresolved fields' names in the fixed
\* order and there is no output table; if all four are resolved there is no such
\* error.
C7_MissingColumns ==
    pc # "read" =>
        IF C7_Expected(content.columns) # <<>>
        THEN /\ pc = "error"
             /\ response = [code |-> 400, exc |-> "ValueError"]
             /\ missing = C7_Expected(content.columns)
             /\ final_df = <<>>
        ELSE /\ pc # "error"
             /\ response.code # 400
             /\ missing = <<>>

\* Article and Shipment Number are missing, Status and Quantity are not
C7_Witness ==
    /\ pc = "error"
    /\ content.columns = <<HdrQtyShort, HdrStatusLower>>
    /\ missing = <<ColArticle, ColShip>>
    /\ response.code = 400

\* C10 as claimed: when ensure_required_columns succeeds the four fields are
\* resolved to four pairwise distinct columns and the renamed table has each
\* canonical name exactly once.
C10_DistinctColumns ==
    pc = "resolved" =>
        /\ \A f, g \in FieldSet : f # g => picked[f] # picked[g]
        /\ \A f \in FieldSet : CountCol(columns, CanonName(f)) = 1

----------------------------------------------------------------------------
(* C4, C5: the Row Filter *)

\* the Row Filter has finished
Filtered == pc \in {"ready", "built", "done"}

\* position in the upload of the column picked for a field
C4_Pos(f) == CHOOSE i \in DOMAIN content.columns : content.columns[i] = picked[f]

\* the Quantity the claim gives a raw cell: a number truncated toward zero,
\* anything non-numeric or missing 0
C4_Coerced(cell) ==
    LET v == IF cell.k = "str" THEN ParseFloat(cell.s) ELSE cell
    IN  IF v.k = "num" THEN (IF v.n >= 0 THEN v.n \div 10 ELSE 0 - ((0 - v.n) \div 10)) ELSE 0

\* the uploaded rows whose Status is exactly the target
C4_Expected ==
    SelectSeq(content.rows, LAMBDA row : row[C4_Pos("status")] = Str(DEFAULT_STATUS))

\* the Ready Rows are the uploaded rows with the target status, Quantity coerced
C4_Rows ==
    Filtered =>
        /\ Len(df_ready) = Len(C4_Expected)
        /\ \A i \in DOMAIN df_ready :
              /\ df_ready[i].art = C4_Expected[i][C4_Pos("art")]
              /\ df_ready[i].ship = C4_Expected[i][C4_Pos("ship")]
              /\ df_ready[i].qty = C4_Coerced(C4_Expected[i][C4_Pos("qty")])

\* C4 as claimed: the Row Filter yields exactly the rows with the target status,
\* Quantity coerced as described, and the coercion never raises.
C4_RowFilter == response.exc # "IntCastingNaNError" /\ C4_Rows

\* C5 as claimed: the Quantity of every Ready Row is a non-negative integer.
C5_NonNegative == Filtered => \A i \in DOMAIN df_ready : df_ready[i].qty >= 0

====
